---- MODULE Spec2Model ----
(***************************************************************************)
(* Catalog resolution and format-preserving patching of npm-check-updates: *)
(*   getCurrentDependencies / getCatalogDependencies  (section resolution) *)
(*   upgradeCatalogData, upgradePackageData           (patching)           *)
(*   readCatalogDependencies, processCatalogs         (orchestration)      *)
(***************************************************************************)
EXTENDS Integers, Sequences, FiniteSets, TLC

VARIABLES
    phase,        \* which operation has run on the drawn inputs
    pkgData,      \* the manifest handed to the resolvers (PackageFile)
    options,      \* the Options of the run
    curResult,    \* value returned by getCurrentDependencies
    catResult,    \* value returned by getCatalogDependencies
    original,     \* the text first handed to a patcher
    fileContent,  \* the text as it stands: the patcher's latest output
    edit,         \* the patcher's other arguments: extension, catalog name, current, upgraded
    patched,      \* how often the patcher has been applied: "no", "once", "again"
    threw,        \* whether the last call of the patcher raised an error
    files,        \* the file system: the text of pnpm-workspace.yaml and of package.json
    packageInfos, \* the consumer manifests handed to processCatalogs
    registry,     \* the newest version the registry knows of each dependency
    readResult,   \* value returned by readCatalogDependencies
    runCatalogDependencies,  \* processCatalogs' argument: catalog key -> {dep: version}
    catalogReferences,    \* processCatalogs' local: catalog name -> referenced names
    upgradedCatalogDeps,  \* processCatalogs' local: catalog name -> {dep: new version}
    catalogFilePath,      \* processCatalogs' local: the catalog file, "" while null
    runContent,   \* processCatalogs' local fileContent
    pending,      \* the catalog names the update loop has still to visit
    ioLog,        \* the reads and writes of files made so far, oldest first
    pc            \* the position reached inside processCatalogs

resolveVars == <<pkgData, curResult, catResult>>
patchVars == <<original, fileContent, edit, patched, threw>>
inputVars == <<packageInfos, registry, readResult, runCatalogDependencies>>
localVars == <<catalogReferences, upgradedCatalogDeps, catalogFilePath, runContent, pending>>
runVars == <<files, inputVars, localVars, ioLog, pc>>
vars == <<phase, options, resolveVars, patchVars, runVars>>

(***************************************************************************)
(* Bounds and universes                                                    *)
(***************************************************************************)
MaxMajor == 2

Deps == {"foo", "bar"}

\* a string that is no VersionSpec and no name: the property is undefined
Absent == "<absent>"

\* semver ranges "^v.0.0", and "~1.0.0", which has the minimum version of "^1.0.0"
CaretSpec(v) == "^" \o ToString(v) \o ".0.0"
ExactSpec(v) == ToString(v) \o ".0.0"
RangeSpecs == {CaretSpec(v) : v \in 1..MaxMajor} \cup {"~1.0.0"}
UrlSpecs == {"github:user/repo"}
RefNames == {"", "mobile"}
CatalogSpecs == {"catalog:" \o c : c \in RefNames}
VersionSpecs == RangeSpecs \cup UrlSpecs \cup CatalogSpecs

\* JavaScript objects used as maps: functions over a finite set of keys
EmptyObj == <<>>
Spread(a, b) == [k \in (DOMAIN a) \cup (DOMAIN b) |-> IF k \in DOMAIN b THEN b[k] ELSE a[k]]
Get(obj, k) == IF k \in DOMAIN obj THEN obj[k] ELSE Absent
Objects(keys, vals) == UNION {[ks -> vals] : ks \in SUBSET keys}

(***************************************************************************)
(* semver (library): validRange and minVersion on the universe above       *)
(***************************************************************************)
validRange(spec) ==
    spec \in RangeSpecs \cup {ExactSpec(v) : v \in 1..MaxMajor}

minVersion(spec) ==
    CHOOSE v \in 1..MaxMajor : spec \in {CaretSpec(v), ExactSpec(v)} \cup (IF v = 1 THEN {"~1.0.0"} ELSE {})

startsWithCatalog(version) == \E c \in RefNames : version = "catalog:" \o c

(***************************************************************************)
(* getCurrentDependencies.ts                                               *)
(***************************************************************************)
\* mutants of isGreaterThanSafe: the comparison reversed, and a tie counted as greater
isGreaterThanSafe_Reversed(spec1, spec2) ==
    /\ validRange(spec1)
    /\ validRange(spec2)
    /\ minVersion(spec1) < minVersion(spec2)

isGreaterThanSafe_OrEqual(spec1, spec2) ==
    /\ validRange(spec1)
    /\ validRange(spec2)
    /\ minVersion(spec1) >= minVersion(spec2)

isGreaterThanSafe(spec1, spec2) ==
    /\ validRange(spec1)
    /\ validRange(spec2)
    /\ minVersion(spec1) > minVersion(spec2)

\* "name@version" of the packageManager field, kept as the pair it splits into
parsePackageManager(pkg) ==
    IF pkg.packageManager = <<>> THEN EmptyObj
    ELSE [n \in {pkg.packageManager[1]} |-> pkg.packageManager[2]]

\* filterObject(obj, predicate), the predicate given as the set of keys it accepts
filterObject(obj, accepted) ==
    [k \in {d \in DOMAIN obj : d \in accepted} |-> obj[k]]

\* pkgData[depSection] || {}: an absent section is the empty object
sectionOf(pkg, depSection) == pkg[depSection]

RECURSIVE reduceCurrent(_, _, _)
reduceCurrent(pkg, depSections, accum) ==
    IF depSections = <<>> THEN accum
    ELSE LET depSection == Head(depSections)
             section == sectionOf(pkg, depSection)
             keep == {dep \in DOMAIN section : ~isGreaterThanSafe(section[dep], Get(accum, dep))}
             next == Spread(accum,
                        IF depSection = "packageManager"
                        THEN parsePackageManager(pkg)
                        ELSE filterObject(section, keep))
         IN reduceCurrent(pkg, Tail(depSections), next)

\* outcome of a call: not yet made, returned a value, or ended in programError
NotCalled == [status |-> "none", value |-> EmptyObj]
Returned(v) == [status |-> "ok", value |-> v]
Thrown == [status |-> "thrown", value |-> EmptyObj]

\* mutant of keyValueBy: a map that holds none of the names
keyValueBy_None(names) == [n \in {} |-> TRUE]

keyValueBy(names) == [n \in names |-> TRUE]

\* filterAndReject(filter, ...): the predicate of the filter option; throws when malformed
filterMalformed(opts) == opts.filter = "/("
filterAndReject(opts, name, version) == opts.filter = Absent \/ opts.filter = name

getCurrentDependencies(pkg, opts) ==
    LET allDependencies == reduceCurrent(pkg, opts.dep, EmptyObj)
        workspacePackageMap == keyValueBy(opts.workspacePackages)
        notOwned == {name \in DOMAIN allDependencies :
                        /\ name \notin DOMAIN workspacePackageMap
                        /\ ~startsWithCatalog(allDependencies[name])}
        wanted == {name \in DOMAIN allDependencies : filterAndReject(opts, name, allDependencies[name])}
    IN IF filterMalformed(opts) THEN Thrown
       ELSE Returned(filterObject(filterObject(allDependencies, notOwned), wanted))

RECURSIVE reduceCatalog(_, _, _)
reduceCatalog(pkg, depSections, accum) ==
    IF depSections = <<>> THEN accum
    ELSE LET \* the packageManager field is a string: none of its entries is a reference
             sectionDependencies ==
                 IF Head(depSections) = "packageManager" THEN EmptyObj
                 ELSE sectionOf(pkg, Head(depSections))
             isRef == {name \in DOMAIN sectionDependencies : startsWithCatalog(sectionDependencies[name])}
             catalogDependencies == filterObject(sectionDependencies, isRef)
         IN reduceCatalog(pkg, Tail(depSections), Spread(accum, catalogDependencies))

\* mutant of getCatalogDependencies: the filter is applied without the catch that calls
\* programError, a malformed one selecting nothing
getCatalogDependencies_Unchecked(pkg, opts) ==
    LET allDependencies == reduceCatalog(pkg, opts.dep, EmptyObj)
        workspacePackageMap == keyValueBy(opts.workspacePackages)
        notOwned == {name \in DOMAIN allDependencies : name \notin DOMAIN workspacePackageMap}
        wanted == {name \in DOMAIN allDependencies : filterAndReject(opts, name, allDependencies[name])}
    IN Returned(filterObject(filterObject(allDependencies, notOwned), wanted))

getCatalogDependencies(pkg, opts) ==
    LET allDependencies == reduceCatalog(pkg, opts.dep, EmptyObj)
        workspacePackageMap == keyValueBy(opts.workspacePackages)
        notOwned == {name \in DOMAIN allDependencies : name \notin DOMAIN workspacePackageMap}
        wanted == {name \in DOMAIN allDependencies : filterAndReject(opts, name, allDependencies[name])}
    IN IF filterMalformed(opts) THEN Thrown
       ELSE Returned(filterObject(filterObject(allDependencies, notOwned), wanted))

\* processCatalogs' variables where it is not called
RunIdle ==
    /\ files = EmptyObj
    /\ packageInfos = <<>>
    /\ registry = EmptyObj
    /\ readResult = NotCalled
    /\ runCatalogDependencies = EmptyObj
    /\ catalogReferences = EmptyObj
    /\ upgradedCatalogDeps = EmptyObj
    /\ catalogFilePath = ""
    /\ runContent = EmptyObj
    /\ pending = <<>>
    /\ ioLog = <<>>
    /\ pc = "idle"

\* the patchers' variables in a run that patches nothing
PatchIdle ==
    /\ original = EmptyObj
    /\ fileContent = EmptyObj
    /\ edit = EmptyObj
    /\ patched = "no"
    /\ threw = FALSE

(***************************************************************************)
(* Inputs of the resolvers                                                 *)
(***************************************************************************)
MapSections == {"dependencies", "devDependencies"}
SectionNames == MapSections \cup {"packageManager"}

\* resolveDepSections(options.dep): the sections to scan, in scan order
DepSectionLists ==
    {s \in UNION {[1..n -> SectionNames] : n \in 1..3} :
        \A i, j \in DOMAIN s : i # j => s[i] # s[j]}

\* manifests declaring one dependency name, in any of the sections, and a packageManager pin
PackageFiles ==
    UNION {[dependencies : Objects({d}, VersionSpecs),
            devDependencies : Objects({d}, VersionSpecs),
            packageManager : {<<>>} \cup {<<"foo", ExactSpec(v)>> : v \in 1..MaxMajor}]
           : d \in Deps}

ResolveOptions ==
    [dep : DepSectionLists,
     workspacePackages : SUBSET Deps,
     filter : {Absent, "foo", "/("}]

InitResolve ==
    /\ phase = "resolve"
    /\ pkgData \in PackageFiles
    /\ options \in ResolveOptions
    /\ curResult = NotCalled
    /\ catResult = NotCalled
    /\ PatchIdle
    /\ RunIdle

GetCurrentDependencies ==
    /\ phase = "resolve"
    /\ curResult = NotCalled
    /\ curResult' = getCurrentDependencies(pkgData, options)
    /\ UNCHANGED <<phase, pkgData, options, catResult, patchVars, runVars>>

GetCatalogDependencies ==
    /\ phase = "resolve"
    /\ catResult = NotCalled
    /\ catResult' = getCatalogDependencies(pkgData, options)
    /\ UNCHANGED <<phase, pkgData, options, curResult, patchVars, runVars>>

NextResolve == GetCurrentDependencies \/ GetCatalogDependencies

SpecResolve == InitResolve /\ [][NextResolve]_vars

(***************************************************************************)
(* Catalog files.  A file's text is the document it parses to, nodes: the  *)
(* map from the path of every version leaf to its value, and its layout:   *)
(* the indentation and spacing as the author wrote them ("written") or as  *)
(* the yaml library's Document.toString() emits them ("serialized").       *)
(***************************************************************************)
MaxNodes == 3

CatalogNames == {"default", "mobile"}
Versions == {ExactSpec(v) : v \in 1..MaxMajor}
OldVersion == ExactSpec(1)

RootCatalogs == {<<"catalog">>} \cup {<<"catalogs", n>> : n \in CatalogNames}
WorkspacesCatalogs == {<<"workspaces">> \o c : c \in RootCatalogs}

Leaves(contents) == UNION {{Append(c, dep) : dep \in contents[c]} : c \in DOMAIN contents}

\* the documents holding at most MaxNodes of the given catalog nodes, each with entries
DocNodes(catalogs) ==
    {[p \in Leaves(contents) |-> OldVersion] :
        contents \in UNION {[cs -> (SUBSET Deps) \ {{}}] :
                            cs \in {c \in SUBSET catalogs : Cardinality(c) <= MaxNodes}}}

YamlTexts == [layout : {"written", "serialized"}, nodes : DocNodes(RootCatalogs)]
JsonTexts == [layout : {"written"}, nodes : DocNodes(RootCatalogs \cup WorkspacesCatalogs)]

\* yaml: doc.getIn(path) !== undefined; jsonc-parser: findNodeAtLocation(root, path)
\* mutant of hasNode: every path is taken to hold an entry
hasNode_Always(text, path) == TRUE

hasNode(text, path) == path \in DOMAIN text.nodes

\* yaml: doc.setIn(path, value); jsonc-parser: applyEdits(content, modify(content, path, value))
setNode(text, path, value) ==
    [text EXCEPT !.nodes = [p \in (DOMAIN text.nodes) \cup {path} |->
                               IF p = path THEN value ELSE text.nodes[p]]]

\* mutant of toString: a serializer whose output it does not reproduce when run again
toString_Unstable(doc) ==
    [doc EXCEPT !.layout = IF doc.layout = "serialized" THEN "written" ELSE "serialized"]

\* yaml: doc.toString() writes the document in the library's own layout
toString(doc) == [doc EXCEPT !.layout = "serialized"]

(***************************************************************************)
(* upgradeCatalogData.ts, content-based (part_004)                         *)
(***************************************************************************)
\* mutant of yamlUpgradeDep, the callback of the older src/lib/upgradeCatalogData.ts: the
\* first catalog of "catalogs" that holds the dependency is rewritten, whatever its name
yamlUpgradeDep_AnyCatalog(doc, catalogName, dep, newVersion) ==
    IF \E n \in CatalogNames : hasNode(doc, <<"catalogs", n, dep>>)
    THEN setNode(doc, <<"catalogs", CHOOSE n \in CatalogNames : hasNode(doc, <<"catalogs", n, dep>>), dep>>,
                 newVersion)
    ELSE IF hasNode(doc, <<"catalog", dep>>)
         THEN setNode(doc, <<"catalog", dep>>, newVersion) ELSE doc

\* the body of the forEach callback for one [dep, newVersion]
yamlUpgradeDep(doc, catalogName, dep, newVersion) ==
    IF catalogName = "default"
    THEN LET doc1 == IF hasNode(doc, <<"catalog", dep>>)
                     THEN setNode(doc, <<"catalog", dep>>, newVersion) ELSE doc
         IN IF hasNode(doc1, <<"catalogs", "default", dep>>)
            THEN setNode(doc1, <<"catalogs", "default", dep>>, newVersion) ELSE doc1
    ELSE IF hasNode(doc, <<"catalogs", catalogName, dep>>)
         THEN setNode(doc, <<"catalogs", catalogName, dep>>, newVersion) ELSE doc

\* Object.entries(upgraded) in some order
RECURSIVE yamlForEach(_, _, _, _)
yamlForEach(doc, catalogName, upgraded, deps) ==
    IF deps = {} THEN doc
    ELSE LET dep == CHOOSE d \in deps : TRUE
         IN yamlForEach(yamlUpgradeDep(doc, catalogName, dep, upgraded[dep]),
                        catalogName, upgraded, deps \ {dep})

upgradeYamlCatalogData(text, catalogName, current, upgraded) ==
    LET doc == text
        deps == {dep \in DOMAIN upgraded : dep \in DOMAIN current}
    IN toString(yamlForEach(doc, catalogName, upgraded, deps))

\* the body of the reduce callback for one [dep, newVersion]; fileRoot is the tree of the
\* text as it was handed in, content the text accumulated so far
jsonUpgradeDep(fileRoot, content, catalogName, current, dep, newVersion) ==
    IF Get(current, dep) = newVersion THEN content
    ELSE LET keyPath == IF catalogName # "" THEN <<"catalogs", catalogName, dep>>
                        ELSE <<"catalog", dep>>
             hasWorkspacesCatalogs ==
                 \E p \in DOMAIN fileRoot.nodes :
                     p[1] = "workspaces" /\ p[2] \in {"catalog", "catalogs"}
             endResult1 == IF hasNode(fileRoot, keyPath)
                           THEN setNode(content, keyPath, newVersion) ELSE content
         IN IF hasWorkspacesCatalogs /\ hasNode(fileRoot, <<"workspaces">> \o keyPath)
            THEN setNode(content, <<"workspaces">> \o keyPath, newVersion)
            ELSE endResult1

RECURSIVE jsonReduce(_, _, _, _, _, _)
jsonReduce(fileRoot, content, catalogName, current, upgraded, deps) ==
    IF deps = {} THEN content
    ELSE LET dep == CHOOSE d \in deps : TRUE
         IN jsonReduce(fileRoot,
                       jsonUpgradeDep(fileRoot, content, catalogName, current, dep, upgraded[dep]),
                       catalogName, current, upgraded, deps \ {dep})

upgradeJsonCatalogData(text, catalogName, current, upgraded) ==
    jsonReduce(text, text, catalogName, current, upgraded, DOMAIN upgraded)

\* outcome of a patcher: the returned text, or an error raised
PatchOk(text) == [threw |-> FALSE, text |-> text]
PatchError(text) == [threw |-> TRUE, text |-> text]

\* mutant of upgradeCatalogData: every extension that is not YAML's is patched as JSON
upgradeCatalogData_AnyFormat(text, fileExtension, catalogName, current, upgraded) ==
    IF fileExtension \in {".yaml", ".yml"}
    THEN PatchOk(upgradeYamlCatalogData(text, catalogName, current, upgraded))
    ELSE PatchOk(upgradeJsonCatalogData(text, catalogName, current, upgraded))

upgradeCatalogData(text, fileExtension, catalogName, current, upgraded) ==
    IF fileExtension \in {".yaml", ".yml"}
    THEN PatchOk(upgradeYamlCatalogData(text, catalogName, current, upgraded))
    ELSE IF fileExtension = ".json"
         THEN PatchOk(upgradeJsonCatalogData(text, catalogName, current, upgraded))
         ELSE PatchError(text)

(***************************************************************************)
(* upgradePackageData.ts (part_000), the dependency-section patch.         *)
(* A manifest's text is the sequence of its top-level items in file order; *)
(* a section's entries are "name": "version" ("plain") or the alias form   *)
(* "name": { ".": "version" } ("alias"); the packageManager field is an    *)
(* item whose one entry is its name@version ("pin").  spacing tells whether *)
(* the blanks between key and value are the one blank the patch writes.    *)
(***************************************************************************)
\* the entries of a matched section text that lie before its first "}"
spanLength(entries) ==
    IF \E i \in DOMAIN entries : entries[i].form = "alias"
    THEN CHOOSE i \in DOMAIN entries :
             /\ entries[i].form = "alias"
             /\ \A j \in 1..(i - 1) : entries[j].form # "alias"
    ELSE Len(entries)

\* updatedSection.replace(regExp, ...) for every upgraded dependency
patchEntry(entry, current, upgraded) ==
    IF entry.name \in DOMAIN upgraded /\ entry.version = current[entry.name]
    THEN [entry EXCEPT !.version = upgraded[entry.name], !.spacing = "normal"]
    ELSE entry

patchSection(entries, current, upgraded) ==
    [i \in DOMAIN entries |->
        IF i <= spanLength(entries) THEN patchEntry(entries[i], current, upgraded) ELSE entries[i]]

\* pkgData.replace(sectionRegExp, ...): a match starts at the key of a listed section and
\* runs to the first "}"; insideMatch tells that a match begun at the packageManager
\* field, which has no "}" of its own, is still running
RECURSIVE replaceSections(_, _, _, _, _)
replaceSections(items, depSections, current, upgraded, insideMatch) ==
    IF items = <<>> THEN <<>>
    ELSE LET item == Head(items)
             matched == insideMatch \/ item.key \in depSections
         IN IF item.key = "packageManager"
            THEN <<item>> \o replaceSections(Tail(items), depSections, current, upgraded, matched)
            ELSE <<IF matched
                   THEN [item EXCEPT !.entries = patchSection(item.entries, current, upgraded)]
                   ELSE item>>
                 \o replaceSections(Tail(items), depSections, current, upgraded, FALSE)

\* newPkgData.replace(/"packageManager".../, ...) when the pinned tool has an upgrade
replacePackageManager(items, upgraded) ==
    [i \in DOMAIN items |->
        IF items[i].key = "packageManager" /\ items[i].entries[1].name \in DOMAIN upgraded
        THEN [items[i] EXCEPT !.entries = <<[items[i].entries[1] EXCEPT
                                               !.version = upgraded[items[i].entries[1].name],
                                               !.spacing = "normal"]>>]
        ELSE items[i]]

SeqToSet(seq) == {seq[i] : i \in DOMAIN seq}

upgradePackageData(text, current, upgraded, opts) ==
    IF DOMAIN upgraded = {} THEN PatchOk(text)
    ELSE LET depSections == SeqToSet(opts.dep) \cup {"overrides"}
             someMatch == \E i \in DOMAIN text.items : text.items[i].key \in depSections
             newPkgData == replaceSections(text.items, depSections, current, upgraded, FALSE)
         IN \* escapeRegexp(current[dep]) fails on a dependency that has no current version
            IF someMatch /\ ~(DOMAIN upgraded \subseteq DOMAIN current)
            THEN PatchError(text)
            ELSE PatchOk([text EXCEPT !.items =
                             IF "packageManager" \in depSections
                             THEN replacePackageManager(newPkgData, upgraded)
                             ELSE newPkgData])

(***************************************************************************)
(* Inputs of the patchers                                                  *)
(***************************************************************************)
Entry(name, form, spacing) == [name |-> name, version |-> OldVersion, form |-> form, spacing |-> spacing]

\* the entry lists of a section: up to two names, in either order, every entry plain or alias
EntryLists(spacing) ==
    LET one == {<<Entry(d, f, spacing)>> : d \in Deps, f \in {"plain", "alias"}}
        two == {pair \in one \X one : pair[1][1].name # pair[2][1].name}
    IN {<<>>} \cup one \cup {pair[1] \o pair[2] : pair \in two}

PackageTexts ==
    {[items |-> pin \o <<[key |-> "dependencies", entries |-> deps],
                         [key |-> "overrides", entries |-> overrides]>>] :
        pin \in {<<>>, <<[key |-> "packageManager", entries |-> <<Entry("foo", "pin", "normal")>>]>>},
        deps \in EntryLists("normal") \cup EntryLists("wide"),
        overrides \in EntryLists("normal")}

\* current and upgraded maps of a call
EditMaps == [current : Objects(Deps, Versions), upgraded : Objects(Deps, {ExactSpec(MaxMajor)})]

CatalogEdits(extensions) ==
    {[target |-> "catalog", fileExtension |-> x, catalogName |-> c,
      current |-> m.current, upgraded |-> m.upgraded] :
        x \in extensions, c \in {""} \cup CatalogNames, m \in EditMaps}

PackageEdits ==
    {[target |-> "package", fileExtension |-> ".json", catalogName |-> "",
      current |-> m.current, upgraded |-> m.upgraded] : m \in EditMaps}

\* extensions that upgradeCatalogData does not know; the comparison is case-sensitive
UnsupportedExtensions == {".toml", ".YAML", ""}

\* catalog texts that hold at most one entry
SmallTexts == {text \in YamlTexts \cup JsonTexts : Cardinality(DOMAIN text.nodes) <= 1}

PatchOptions ==
    [dep : {<<"dependencies">>, <<"devDependencies">>, <<"dependencies", "packageManager">>},
     workspacePackages : {{}},
     filter : {Absent}]

ResolveIdle ==
    /\ pkgData = EmptyObj
    /\ curResult = NotCalled
    /\ catResult = NotCalled

InitPatch ==
    /\ phase = "patch"
    /\ ResolveIdle
    /\ RunIdle
    /\ \/ /\ original \in YamlTexts
          /\ edit \in CatalogEdits({".yaml", ".yml"})
          /\ options \in [dep : {<<>>}, workspacePackages : {{}}, filter : {Absent}]
       \/ /\ original \in JsonTexts
          /\ edit \in CatalogEdits({".json"})
          /\ options \in [dep : {<<>>}, workspacePackages : {{}}, filter : {Absent}]
       \/ /\ original \in SmallTexts
          /\ edit \in CatalogEdits(UnsupportedExtensions)
          /\ options \in [dep : {<<>>}, workspacePackages : {{}}, filter : {Absent}]
       \/ /\ original \in PackageTexts
          /\ edit \in PackageEdits
          /\ options \in PatchOptions
    /\ fileContent = original
    /\ patched = "no"
    /\ threw = FALSE

\* upgradeCatalogData applied to the text as it stands
UpgradeCatalogData ==
    /\ phase = "patch"
    /\ edit.target = "catalog"
    /\ patched # "again"
    /\ LET result == upgradeCatalogData(fileContent, edit.fileExtension, edit.catalogName,
                                        edit.current, edit.upgraded)
       IN /\ fileContent' = result.text
          /\ threw' = result.threw
    /\ patched' = IF patched = "no" THEN "once" ELSE "again"
    /\ UNCHANGED <<phase, options, resolveVars, original, edit, runVars>>

\* upgradePackageData applied to the text as it stands
UpgradePackageData ==
    /\ phase = "patch"
    /\ edit.target = "package"
    /\ patched # "again"
    /\ LET result == upgradePackageData(fileContent, edit.current, edit.upgraded, options)
       IN /\ fileContent' = result.text
          /\ threw' = result.threw
    /\ patched' = IF patched = "no" THEN "once" ELSE "again"
    /\ UNCHANGED <<phase, options, resolveVars, original, edit, runVars>>

NextPatch == UpgradeCatalogData \/ UpgradePackageData

SpecPatch == InitPatch /\ [][NextPatch]_vars

(***************************************************************************)
(* upgradeCatalogData.ts, path-based with a catalog name (part_002): both  *)
(* branches read the file at filePath themselves                           *)
(***************************************************************************)
\* path.extname(filePath)
extname(filePath) == IF filePath = "pnpm-workspace.yaml" THEN ".yaml" ELSE ".json"

\* the forEach callback is the one of the content-based upgradeYamlCatalogData
upgradeYamlCatalogDataAtPath(fileSystem, filePath, catalogName, current, upgraded) ==
    LET doc == fileSystem[filePath]
        deps == {dep \in DOMAIN upgraded : dep \in DOMAIN current}
    IN toString(yamlForEach(doc, catalogName, upgraded, deps))

\* the body of the reduce callback for one [dep, newVersion]
jsonUpgradeDepAtPath(fileRoot, text, catalogName, current, dep, newVersion) ==
    IF Get(current, dep) = newVersion THEN text
    ELSE LET keyPath == IF catalogName = "default" THEN <<"catalog", dep>>
                        ELSE <<"catalogs", catalogName, dep>>
             hasWorkspacesCatalog ==
                 \E p \in DOMAIN fileRoot.nodes : p[1] = "workspaces" /\ p[2] = "catalog"
             hasWorkspacesCatalogs ==
                 \E p \in DOMAIN fileRoot.nodes : p[1] = "workspaces" /\ p[2] = "catalogs"
             endResult1 == IF hasNode(fileRoot, keyPath)
                           THEN setNode(text, keyPath, newVersion) ELSE text
         IN IF /\ \/ hasWorkspacesCatalog /\ catalogName = "default"
                  \/ hasWorkspacesCatalogs /\ catalogName # "default"
               /\ hasNode(fileRoot, <<"workspaces">> \o keyPath)
            THEN setNode(text, <<"workspaces">> \o keyPath, newVersion)
            ELSE endResult1

RECURSIVE jsonReduceAtPath(_, _, _, _, _, _)
jsonReduceAtPath(fileRoot, text, catalogName, current, upgraded, deps) ==
    IF deps = {} THEN text
    ELSE LET dep == CHOOSE d \in deps : TRUE
         IN jsonReduceAtPath(fileRoot,
                jsonUpgradeDepAtPath(fileRoot, text, catalogName, current, dep, upgraded[dep]),
                catalogName, current, upgraded, deps \ {dep})

upgradeJsonCatalogDataAtPath(fileSystem, filePath, catalogName, current, upgraded) ==
    LET text == fileSystem[filePath]
    IN jsonReduceAtPath(text, text, catalogName, current, upgraded, DOMAIN upgraded)

\* a text that is not valid YAML, or not valid JSON
isMalformed(text) == text.layout = "malformed"

\* of a malformed text, parseDocument keeps the errors and doc.toString() throws on them
\* (line 44); JSON.parse throws (line 59)
upgradeCatalogDataAtPath(fileSystem, filePath, catalogName, current, upgraded) ==
    LET fileExtension == extname(filePath)
    IN IF isMalformed(fileSystem[filePath]) THEN PatchError(fileSystem[filePath])
       ELSE IF fileExtension \in {".yaml", ".yml"}
       THEN PatchOk(upgradeYamlCatalogDataAtPath(fileSystem, filePath, catalogName, current, upgraded))
       ELSE IF fileExtension = ".json"
            THEN PatchOk(upgradeJsonCatalogDataAtPath(fileSystem, filePath, catalogName, current, upgraded))
            ELSE PatchError(fileSystem[filePath])

(***************************************************************************)
(* PackageInfo.ts: readCatalogDependencies                                 *)
(***************************************************************************)
CatalogFiles == {"pnpm-workspace.yaml", "package.json"}

\* a file that does not exist
NoFile == [layout |-> "missing", nodes |-> EmptyObj]

GetMap(obj, k) == IF k \in DOMAIN obj THEN obj[k] ELSE EmptyObj

\* the object a parsed document holds at a path, by dependency name
objectAt(text, path) ==
    [dep \in {d \in Deps : hasNode(text, Append(path, d))} |-> text.nodes[Append(path, dep)]]

\* the catalogs object a parsed document holds under a path, by catalog name
catalogsAt(text, path) ==
    [n \in {c \in CatalogNames : DOMAIN objectAt(text, path \o <<"catalogs", c>>) # {}} |->
        objectAt(text, path \o <<"catalogs", n>>)]

\* catalogDependencies.default = { ...catalogDependencies.default, ...catalog }, if present
addDefault(accum, catalog) ==
    IF DOMAIN catalog = {} THEN accum
    ELSE [n \in (DOMAIN accum) \cup {"default"} |->
             IF n = "default" THEN Spread(GetMap(accum, "default"), catalog) ELSE accum[n]]

\* catalogDependencies[name] = { ...catalogDependencies[name], ...catalogDeps }, per entry
addCatalogs(accum, catalogs) ==
    [n \in (DOMAIN accum) \cup (DOMAIN catalogs) |->
        IF n \in DOMAIN catalogs THEN Spread(GetMap(accum, n), catalogs[n]) ELSE accum[n]]

\* null is the empty object here: processCatalogs returns at once on either
readCatalogDependencies(opts, fileSystem) ==
    LET pnpmWorkspaces == fileSystem["pnpm-workspace.yaml"]
        fromWorkspaceFile ==
            IF opts.packageManager = "pnpm" /\ pnpmWorkspaces # NoFile
            THEN catalogsAt(pnpmWorkspaces, <<>>) ELSE EmptyObj
        packageData == fileSystem["package.json"]
        withCatalog == addDefault(fromWorkspaceFile, objectAt(packageData, <<"catalog">>))
        withCatalogs == addCatalogs(withCatalog, catalogsAt(packageData, <<>>))
        withWorkspacesCatalog ==
            addDefault(withCatalogs, objectAt(packageData, <<"workspaces", "catalog">>))
    IN IF packageData = NoFile THEN EmptyObj
       ELSE addCatalogs(withWorkspacesCatalog, catalogsAt(packageData, <<"workspaces">>))

\* the versions by which the sources of a definition are told apart: the workspace file
\* holds OldVersion, the root of package.json a caret range, its workspaces object a tilde range
RootVersion == CaretSpec(1)
WorkspacesVersion == "~1.0.0"

bySource(nodes) ==
    [p \in DOMAIN nodes |-> IF p[1] = "workspaces" THEN WorkspacesVersion ELSE RootVersion]

\* a pnpm-workspace.yaml, or none, beside a package.json with or without catalogs
ReadFileSystems ==
    {[f \in CatalogFiles |-> IF f = "pnpm-workspace.yaml" THEN y ELSE j] :
        y \in {NoFile} \cup [layout : {"written"}, nodes : DocNodes(RootCatalogs)],
        j \in {[layout |-> "written", nodes |-> bySource(n)] :
                  n \in DocNodes(RootCatalogs \cup WorkspacesCatalogs)}}

ReadOptions ==
    [dep : {<<"dependencies", "devDependencies">>},
     workspacePackages : {{}},
     filter : {Absent},
     packageManager : {"pnpm", "bun"},
     upgrade : {FALSE}]

InitRead ==
    /\ phase = "read"
    /\ ResolveIdle
    /\ PatchIdle
    /\ options \in ReadOptions
    /\ files \in ReadFileSystems
    /\ packageInfos = <<>>
    /\ registry = EmptyObj
    /\ readResult = NotCalled
    /\ runCatalogDependencies = EmptyObj
    /\ catalogReferences = EmptyObj
    /\ upgradedCatalogDeps = EmptyObj
    /\ catalogFilePath = ""
    /\ runContent = EmptyObj
    /\ pending = <<>>
    /\ ioLog = <<>>
    /\ pc = "idle"

ReadCatalogDependencies ==
    /\ phase = "read"
    /\ readResult = NotCalled
    /\ readResult' = Returned(readCatalogDependencies(options, files))
    /\ UNCHANGED <<phase, options, resolveVars, patchVars, files, packageInfos, registry,
                   runCatalogDependencies, localVars, ioLog, pc>>

NextRead == ReadCatalogDependencies

SpecRead == InitRead /\ [][NextRead]_vars

(***************************************************************************)
(* processCatalogs.ts, the per-catalog variant (part_003)                  *)
(***************************************************************************)
\* catalogRef.replace('catalog:', '')
catalogNameOf(catalogRef) == CHOOSE c \in RefNames : catalogRef = "catalog:" \o c

\* the key under which processCatalogs looks a referenced catalog up
lookupKey(catalogName) == "catalog:" \o catalogName

\* catalog dependencies keyed the way processCatalogs looks them up: the default catalog
\* under lookupKey(""), a named one under lookupKey(name)
keyedByReference(byName) ==
    LET keyOf(n) == lookupKey(IF n = "default" THEN "" ELSE n)
    IN [k \in {keyOf(n) : n \in DOMAIN byName} |->
           byName[CHOOSE n \in DOMAIN byName : keyOf(n) = k]]

\* getCatalogDependencies(packageInfo.pkg, options) of the i-th manifest
catalogDepsOf(infos, opts, i) == getCatalogDependencies(infos[i].pkg, opts).value

collectReferences(infos, opts) ==
    LET names == {catalogNameOf(catalogDepsOf(infos, opts, i)[pkgName]) :
                     <<i, pkgName>> \in {ip \in (DOMAIN infos) \X Deps :
                                            ip[2] \in DOMAIN catalogDepsOf(infos, opts, ip[1])}}
    IN [catalogName \in names |->
           {pkgName \in Deps :
               \E i \in DOMAIN infos :
                   /\ pkgName \in DOMAIN catalogDepsOf(infos, opts, i)
                   /\ catalogDepsOf(infos, opts, i)[pkgName] = lookupKey(catalogName)}]

\* what the registry holds for a dependency whose lookup ends in an error
LookupError == "<lookup error>"

\* upgradePackageDefinitions(current, options)[0]: the dependencies whose newest version
\* differs from the current one; one the registry does not know, or whose lookup ended in
\* an error that the call absorbed, yields no upgrade
upgradePackageDefinitions(currentDependencies, latest) ==
    [dep \in {d \in DOMAIN currentDependencies :
                 /\ d \in DOMAIN latest
                 /\ latest[d] # LookupError
                 /\ latest[d] # currentDependencies[d]} |-> latest[dep]]

\* the lookup of one referenced catalog meets an error
lookupFails(catalogDeps, catalogName, pkgNames, latest) ==
    /\ lookupKey(catalogName) \in DOMAIN catalogDeps
    /\ \E d \in pkgNames :
          d \in DOMAIN catalogDeps[lookupKey(catalogName)] /\ Get(latest, d) = LookupError

\* the upgrades of one referenced catalog, {} where it is not among the catalog dependencies
upgradesOf(catalogDeps, catalogName, pkgNames, latest) ==
    IF lookupKey(catalogName) \notin DOMAIN catalogDeps THEN EmptyObj
    ELSE LET referencedCatalogDeps ==
                 filterObject(catalogDeps[lookupKey(catalogName)], pkgNames)
         IN upgradePackageDefinitions(referencedCatalogDeps, latest)

lookupUpgrades(catalogDeps, references, latest) ==
    [catalogName \in {c \in DOMAIN references :
                         DOMAIN upgradesOf(catalogDeps, c, references[c], latest) # {}} |->
        upgradesOf(catalogDeps, catalogName, references[catalogName], latest)]

\* packageData.catalog || packageData.catalogs || workspaces.catalog || workspaces.catalogs
hasCatalogInformation(packageData) ==
    \E p \in DOMAIN packageData.nodes :
        \/ p[1] \in {"catalog", "catalogs"}
        \/ p[1] = "workspaces" /\ p[2] \in {"catalog", "catalogs"}

\* the orders in which Object.entries may list the keys of an object
Orders(keys) ==
    {s \in [1..Cardinality(keys) -> keys] : \A i, j \in DOMAIN s : i # j => s[i] # s[j]}

Read(filePath) == <<"read", filePath>>
Write(filePath) == <<"write", filePath>>
\* console.error(`Error updating catalog file ${catalogFilePath}:`, error)
Report(filePath) == <<"error", filePath>>

(***************************************************************************)
(* Inputs of a run                                                         *)
(***************************************************************************)
PlainPackageJson == [layout |-> "written", nodes |-> EmptyObj]

\* the catalog nodes of a package.json: flat and named, at the root and under workspaces
PackageJsonCatalogs ==
    {<<"catalog">>, <<"catalogs", "mobile">>,
     <<"workspaces", "catalog">>, <<"workspaces", "catalogs", "mobile">>}

\* pnpm keeps its catalogs in pnpm-workspace.yaml, bun in package.json
FileSystems(packageManager) ==
    IF packageManager = "pnpm"
    THEN {[f \in CatalogFiles |-> IF f = "pnpm-workspace.yaml" THEN y ELSE PlainPackageJson] :
             y \in [layout : {"written"}, nodes : DocNodes(RootCatalogs)]}
    ELSE {[f \in CatalogFiles |-> IF f = "pnpm-workspace.yaml" THEN NoFile ELSE j] :
             j \in [layout : {"written"}, nodes : DocNodes(PackageJsonCatalogs)]}

\* consumer manifests whose dependencies are catalog references; one name may also be
\* a development dependency
Consumers ==
    [dependencies : Objects(Deps, CatalogSpecs),
     devDependencies : Objects({"foo"}, CatalogSpecs),
     packageManager : {<<>>}]

SingleReference ==
    {c \in Consumers : Cardinality(DOMAIN c.dependencies) = 1 /\ DOMAIN c.devDependencies = {}}

\* one consumer, or two that hold one reference each
PackageInfoLists ==
    {<<[pkg |-> p]>> : p \in Consumers}
    \cup {<<[pkg |-> p], [pkg |-> q]>> :
             p \in SingleReference, q \in SingleReference}

RunOptions ==
    [dep : {<<"dependencies", "devDependencies">>},
     workspacePackages : {{}},
     filter : {Absent},
     packageManager : {"pnpm", "bun"},
     upgrade : BOOLEAN]

\* the registry knows a newer version of every dependency, or does not know "foo", or
\* fails to answer for "foo"
Registries ==
    {[d \in Deps |-> ExactSpec(MaxMajor)],
     [d \in Deps \ {"foo"} |-> ExactSpec(MaxMajor)],
     [d \in Deps |-> IF d = "foo" THEN LookupError ELSE ExactSpec(MaxMajor)]}

\* the catalog file as processCatalogs finds it is not valid YAML, or not valid JSON
MalformedFileSystems(packageManager) ==
    {[f \in CatalogFiles |->
         IF packageManager = "pnpm"
         THEN (IF f = "pnpm-workspace.yaml" THEN [layout |-> "malformed", nodes |-> EmptyObj]
               ELSE PlainPackageJson)
         ELSE (IF f = "pnpm-workspace.yaml" THEN NoFile
               ELSE [layout |-> "malformed", nodes |-> EmptyObj])]}

\* catalog dependencies that the caller hands in beside such a file
GivenCatalogDependencies ==
    {keyedByReference([n \in {"default"} |-> [d \in {"foo"} |-> OldVersion]])}

\* processCatalogs is entered with the catalog dependencies of the files, as
\* readCatalogDependencies returns them or keyed the way processCatalogs looks them up,
\* or beside a catalog file that cannot be parsed
InitRun ==
    /\ phase = "run"
    /\ ResolveIdle
    /\ PatchIdle
    /\ options \in RunOptions
    /\ packageInfos \in PackageInfoLists
    /\ registry \in Registries
    /\ \/ /\ files \in FileSystems(options.packageManager)
          /\ readResult = Returned(readCatalogDependencies(options, files))
          /\ runCatalogDependencies \in {readResult.value, keyedByReference(readResult.value)}
       \/ /\ files \in MalformedFileSystems(options.packageManager)
          /\ readResult = NotCalled
          /\ runCatalogDependencies \in GivenCatalogDependencies
    /\ catalogReferences = EmptyObj
    /\ upgradedCatalogDeps = EmptyObj
    /\ catalogFilePath = ""
    /\ runContent = EmptyObj
    /\ pending = <<>>
    /\ ioLog = <<>>
    /\ pc = "start"

\* lines 23-44: the early return and the collection of references
CollectReferences ==
    /\ phase = "run"
    /\ pc = "start"
    /\ IF DOMAIN runCatalogDependencies = {}
       THEN /\ pc' = "done"
            /\ UNCHANGED catalogReferences
       ELSE IF \E i \in DOMAIN packageInfos :
                  getCatalogDependencies(packageInfos[i].pkg, options).status = "thrown"
            THEN \* programError, called in the catch of getCatalogDependencies, ends the run
                 /\ pc' = "programError"
                 /\ UNCHANGED catalogReferences
            ELSE /\ catalogReferences' = collectReferences(packageInfos, options)
                 /\ pc' = IF DOMAIN catalogReferences' = {} THEN "done" ELSE "lookup"
    /\ UNCHANGED <<phase, options, resolveVars, patchVars, files, inputVars,
                   upgradedCatalogDeps, catalogFilePath, runContent, pending, ioLog>>

\* lines 46-70: the upgrades of every referenced catalog, awaited with Promise.all and
\* without a catch.  A lookup that meets an error either is absorbed by
\* upgradePackageDefinitions, which then returns no upgrade for the name, or makes its call
\* reject, which rejects Promise.all and with it processCatalogs
LookupUpgrades ==
    /\ phase = "run"
    /\ pc = "lookup"
    /\ \/ /\ \E c \in DOMAIN catalogReferences :
                 lookupFails(runCatalogDependencies, c, catalogReferences[c], registry)
          /\ pc' = "rejected"
          /\ UNCHANGED upgradedCatalogDeps
       \/ /\ upgradedCatalogDeps' =
                 lookupUpgrades(runCatalogDependencies, catalogReferences, registry)
          /\ pc' = IF DOMAIN upgradedCatalogDeps' = {} THEN "done" ELSE "find"
    /\ UNCHANGED <<phase, options, resolveVars, patchVars, files, inputVars,
                   catalogReferences, catalogFilePath, runContent, pending, ioLog>>

\* lines 73-104: the catalog file is pnpm-workspace.yaml for pnpm if there is one, else
\* package.json if, once read, it holds catalog information
FindCatalogFile ==
    /\ phase = "run"
    /\ pc = "find"
    /\ IF options.packageManager = "pnpm" /\ files["pnpm-workspace.yaml"] # NoFile
       THEN /\ catalogFilePath' = "pnpm-workspace.yaml"
            /\ UNCHANGED ioLog
       ELSE /\ catalogFilePath' =
                   IF /\ files["package.json"] # NoFile
                      /\ ~isMalformed(files["package.json"])
                      /\ hasCatalogInformation(files["package.json"])
                   THEN "package.json" ELSE ""
            /\ ioLog' = IF files["package.json"] # NoFile
                        THEN Append(ioLog, Read("package.json")) ELSE ioLog
    /\ pc' = IF /\ catalogFilePath' # "pnpm-workspace.yaml"
                /\ isMalformed(files["package.json"])
             THEN "rejected"  \* JSON.parse(packageJsonContent), line 90, is outside the try
             ELSE IF catalogFilePath' # "" /\ options.upgrade THEN "read" ELSE "done"
    /\ UNCHANGED <<phase, options, resolveVars, patchVars, files, inputVars,
                   catalogReferences, upgradedCatalogDeps, runContent, pending>>

\* line 107: fileContent = await fs.readFile(catalogFilePath), then the loop is entered
ReadCatalogFile ==
    /\ phase = "run"
    /\ pc = "read"
    /\ runContent' = files[catalogFilePath]
    /\ ioLog' = Append(ioLog, Read(catalogFilePath))
    /\ pending' \in Orders(DOMAIN upgradedCatalogDeps)
    /\ pc' = "upgrade"
    /\ UNCHANGED <<phase, options, resolveVars, patchVars, files, inputVars,
                   catalogReferences, upgradedCatalogDeps, catalogFilePath>>

\* lines 110-115: upgradeCatalogData for the next catalog, which reads the file again
UpgradeCatalog ==
    /\ phase = "run"
    /\ pc = "upgrade"
    /\ LET catalogName == Head(pending)
           upgradedDeps == upgradedCatalogDeps[catalogName]
           currentCatalogDeps == GetMap(runCatalogDependencies, lookupKey(catalogName))
           catalogNameForUpgrade == IF catalogName = "" THEN "default" ELSE catalogName
           result == upgradeCatalogDataAtPath(files, catalogFilePath, catalogNameForUpgrade,
                                              currentCatalogDeps, upgradedDeps)
       IN IF DOMAIN upgradedDeps = {}
          THEN /\ pending' = Tail(pending)
               /\ pc' = IF pending' = <<>> THEN "done" ELSE "upgrade"
               /\ UNCHANGED <<runContent, ioLog>>
          ELSE IF result.threw
               THEN \* caught at line 120: the error is logged and the loop is left
                    /\ ioLog' = ioLog \o <<Read(catalogFilePath), Report(catalogFilePath)>>
                    /\ pc' = "done"
                    /\ UNCHANGED <<runContent, pending>>
               ELSE /\ ioLog' = Append(ioLog, Read(catalogFilePath))
                    /\ runContent' = result.text
                    /\ pc' = "write"
                    /\ UNCHANGED pending
    /\ UNCHANGED <<phase, options, resolveVars, patchVars, files, inputVars,
                   catalogReferences, upgradedCatalogDeps, catalogFilePath>>

\* mutant of WriteCatalogFile: only the write of the last catalog reaches the file, so that
\* the catalogs after the first are patched into the text as it was before the run
WriteCatalogFile_LastOnly ==
    /\ phase = "run"
    /\ pc = "write"
    /\ files' = IF Tail(pending) = <<>> THEN [files EXCEPT ![catalogFilePath] = runContent]
                ELSE files
    /\ ioLog' = Append(ioLog, Write(catalogFilePath))
    /\ pending' = Tail(pending)
    /\ pc' = IF pending' = <<>> THEN "done" ELSE "upgrade"
    /\ UNCHANGED <<phase, options, resolveVars, patchVars, inputVars,
                   catalogReferences, upgradedCatalogDeps, catalogFilePath, runContent>>

\* line 117: fs.writeFile(catalogFilePath, fileContent), then the next catalog
WriteCatalogFile ==
    /\ phase = "run"
    /\ pc = "write"
    /\ files' = [files EXCEPT ![catalogFilePath] = runContent]
    /\ ioLog' = Append(ioLog, Write(catalogFilePath))
    /\ pending' = Tail(pending)
    /\ pc' = IF pending' = <<>> THEN "done" ELSE "upgrade"
    /\ UNCHANGED <<phase, options, resolveVars, patchVars, inputVars,
                   catalogReferences, upgradedCatalogDeps, catalogFilePath, runContent>>

NextRun ==
    \/ CollectReferences
    \/ LookupUpgrades
    \/ FindCatalogFile
    \/ ReadCatalogFile
    \/ UpgradeCatalog
    \/ WriteCatalogFile

SpecRun == InitRun /\ [][NextRun]_vars

(***************************************************************************)
(* processCatalogs on a file that defines several catalogs                 *)
(***************************************************************************)
\* the catalog dependencies read from the files hold two catalogs or more
InitSeveral ==
    /\ phase = "run"
    /\ ResolveIdle
    /\ PatchIdle
    /\ options \in RunOptions
    /\ packageInfos \in PackageInfoLists
    /\ registry \in Registries
    /\ files \in FileSystems(options.packageManager)
    /\ readResult = Returned(readCatalogDependencies(options, files))
    /\ Cardinality(DOMAIN readResult.value) >= 2
    /\ runCatalogDependencies \in {readResult.value, keyedByReference(readResult.value)}
    /\ catalogReferences = EmptyObj
    /\ upgradedCatalogDeps = EmptyObj
    /\ catalogFilePath = ""
    /\ runContent = EmptyObj
    /\ pending = <<>>
    /\ ioLog = <<>>
    /\ pc = "start"

SpecSeveral == InitSeveral /\ [][NextRun]_vars

(***************************************************************************)
(* processCatalogs with a filter option                                    *)
(***************************************************************************)
\* runs with and without a filter, which may be malformed
FilterOptions ==
    [dep : {<<"dependencies", "devDependencies">>},
     workspacePackages : {{}},
     filter : {Absent, "/("},
     packageManager : {"pnpm", "bun"},
     upgrade : BOOLEAN]

\* catalog files that hold at most one entry
FilterFileSystems(packageManager) ==
    {fileSystem \in FileSystems(packageManager) :
        \A f \in CatalogFiles : Cardinality(DOMAIN fileSystem[f].nodes) <= 1}

\* no manifest, one consumer, or two that hold one reference each
InitFilter ==
    /\ phase = "run"
    /\ ResolveIdle
    /\ PatchIdle
    /\ options \in FilterOptions
    /\ packageInfos \in {<<>>} \cup PackageInfoLists
    /\ registry \in Registries
    /\ files \in FilterFileSystems(options.packageManager)
    /\ readResult = Returned(readCatalogDependencies(options, files))
    /\ runCatalogDependencies \in {readResult.value, keyedByReference(readResult.value)}
    /\ catalogReferences = EmptyObj
    /\ upgradedCatalogDeps = EmptyObj
    /\ catalogFilePath = ""
    /\ runContent = EmptyObj
    /\ pending = <<>>
    /\ ioLog = <<>>
    /\ pc = "start"

SpecFilter == InitFilter /\ [][NextRun]_vars

(***************************************************************************)
(* Section resolution: C1, C2, C3                                          *)
(***************************************************************************)
Scanned(section) == \E i \in DOMAIN options.dep : options.dep[i] = section
ScanIndex(section) == CHOOSE i \in DOMAIN options.dep : options.dep[i] = section

\* the packageManager field is scanned and pins name d
PinnedByPackageManager(d) ==
    /\ Scanned("packageManager")
    /\ pkgData.packageManager # <<>>
    /\ pkgData.packageManager[1] = d

\* d is declared in exactly the two scanned dependency sections
InTwoSections(d) ==
    /\ \A section \in MapSections : Scanned(section) /\ d \in DOMAIN pkgData[section]
    /\ ~PinnedByPackageManager(d)

FirstSection == IF ScanIndex("dependencies") < ScanIndex("devDependencies")
                THEN "dependencies" ELSE "devDependencies"
LaterSection == IF FirstSection = "dependencies" THEN "devDependencies" ELSE "dependencies"
FirstSpec(d) == pkgData[FirstSection][d]
LaterSpec(d) == pkgData[LaterSection][d]

Comparable(a, b) == validRange(a) /\ validRange(b)
MinLower(a, b) == Comparable(a, b) /\ minVersion(a) < minVersion(b)

\* the name passes the workspace-package and filter steps that follow the merge
Passes(d) == d \notin options.workspacePackages /\ options.filter \in {Absent, d}

C3_CatalogExclusion ==
    (curResult.status = "ok" /\ catResult.status = "ok") =>
        /\ \A d \in Deps :
              (\E section \in MapSections :
                  /\ Scanned(section)
                  /\ d \in DOMAIN pkgData[section]
                  /\ startsWithCatalog(pkgData[section][d])) =>
                  d \notin DOMAIN curResult.value
        /\ (DOMAIN curResult.value) \cap (DOMAIN catResult.value) = {}

(***************************************************************************)
(* Patching: C4, C7, C8, C9, C10                                           *)
(***************************************************************************)
CatalogPatched ==
    phase = "patch" /\ edit.target = "catalog" /\ patched # "no" /\ ~threw

IsYaml == edit.fileExtension \in {".yaml", ".yml"}
IsJson == edit.fileExtension = ".json"

\* the dependency has an edit: an old version in current and another, new one in upgraded
Edited(dep) ==
    /\ dep \in DOMAIN edit.upgraded
    /\ dep \in DOMAIN edit.current
    /\ edit.current[dep] # edit.upgraded[dep]

ValueAt(text, path) == Get(text.nodes, path)

\* C4 as claimed: with the same dependency of the default catalog at root catalog.<dep> and
\* at workspaces.catalog.<dep>, both at the same old version, one call of the JSON patcher
\* with one edit for it leaves the new version at both places.
C4_DualLocation ==
    (CatalogPatched /\ IsJson /\ edit.catalogName = "") =>
        \A dep \in Deps :
            (/\ DOMAIN edit.upgraded = {dep}
             /\ Edited(dep)
             /\ ValueAt(original, <<"catalog", dep>>) = edit.current[dep]
             /\ ValueAt(original, <<"workspaces", "catalog", dep>>) = edit.current[dep]) =>
                /\ ValueAt(fileContent, <<"catalog", dep>>) = edit.upgraded[dep]
                /\ ValueAt(fileContent, <<"workspaces", "catalog", dep>>) = edit.upgraded[dep]

(***************************************************************************)
(* Orchestration: C5, C6                                                   *)
(***************************************************************************)
\* what the run has done to one file so far, oldest first
AccessesOf(filePath) ==
    SelectSeq(ioLog, LAMBDA e : e[2] = filePath /\ e[1] \in {"read", "write"})

WritesOf(filePath) ==
    Cardinality({i \in DOMAIN ioLog : ioLog[i] = Write(filePath)})

\* the run updates the catalog file: it found upgrades, found the file, and upgrade is set
UpdatesCatalogFile ==
    /\ phase = "run"
    /\ DOMAIN upgradedCatalogDeps # {}
    /\ catalogFilePath # ""
    /\ options.upgrade

\* C5 as claimed: in a run of processCatalogs in which catalogs of one catalog file have
\* upgrades, the file is never written a second time, and once the run has ended the file
\* has been read once and then written once.
C5_SingleReadSingleWrite ==
    UpdatesCatalogFile =>
        /\ WritesOf(catalogFilePath) <= 1
        /\ pc = "done" =>
               AccessesOf(catalogFilePath) = <<Read(catalogFilePath), Write(catalogFilePath)>>

\* C6 as claimed: pnpm, upgrade set, pnpm-workspace.yaml holds catalog.<dep>, a consumer
\* declares <dep> as "catalog:", and the registry's version differs from the current one:
\* when processCatalogs has ended, catalog.<dep> of the file is the registry's version.
C6_DefaultCatalogUpgraded ==
    \A dep \in Deps :
        (/\ phase = "run"
         /\ pc = "done"
         /\ options.packageManager = "pnpm"
         /\ options.upgrade
         /\ hasNode(files["pnpm-workspace.yaml"], <<"catalog", dep>>)
         /\ \E i \in DOMAIN packageInfos :
                Get(packageInfos[i].pkg.dependencies, dep) = lookupKey("")
         /\ dep \in DOMAIN registry
         /\ registry[dep] # OldVersion) =>
            ValueAt(files["pnpm-workspace.yaml"], <<"catalog", dep>>) = registry[dep]

\* the catalog a leaf belongs to, at the root or under "workspaces": the flat "catalog"
\* node is the implicit catalog, which the names "" and "default" both denote
CatalogPath(path) == IF path[1] = "workspaces" THEN Tail(path) ELSE path
EntryOf(path, catalogName) ==
    IF CatalogPath(path)[1] = "catalog"
    THEN catalogName \in {"", "default"}
    ELSE \/ CatalogPath(path)[2] = catalogName
         \/ (catalogName = "" /\ CatalogPath(path)[2] = "default")
DepOf(path) == path[Len(path)]

\* C7: an edit set applied for catalog C changes nothing but entries of C for the edited
\* dependencies: every entry of another catalog, and every entry of a dependency outside
\* the edit set, has in the output the value it has in the input, and no entry is added.
C7_NamedCatalogIsolation ==
    CatalogPatched =>
        /\ DOMAIN fileContent.nodes = DOMAIN original.nodes
        /\ \A path \in DOMAIN original.nodes :
              ~(EntryOf(path, edit.catalogName) /\ DepOf(path) \in DOMAIN edit.upgraded) =>
                  fileContent.nodes[path] = original.nodes[path]

\* catalog "mobile" was edited while "default" holds the same dependency at the same old version
C7_Witness ==
    /\ CatalogPatched
    /\ edit.catalogName = "mobile"
    /\ \E dep \in Deps :
          /\ Edited(dep)
          /\ ValueAt(original, <<"catalogs", "mobile", dep>>) = edit.current[dep]
          /\ ValueAt(original, <<"catalogs", "default", dep>>) = edit.current[dep]
          /\ ValueAt(fileContent, <<"catalogs", "mobile", dep>>) = edit.upgraded[dep]
          /\ ValueAt(fileContent, <<"catalogs", "default", dep>>) = edit.current[dep]

\* the paths at which the patcher of the file's format looks for an entry of catalog C
TargetPaths(catalogName, dep) ==
    IF IsYaml
    THEN (IF catalogName = "default"
          THEN {<<"catalog", dep>>, <<"catalogs", "default", dep>>}
          ELSE {<<"catalogs", catalogName, dep>>})
    ELSE (IF catalogName = ""
          THEN {<<"catalog", dep>>, <<"workspaces", "catalog", dep>>}
          ELSE {<<"catalogs", catalogName, dep>>, <<"workspaces", "catalogs", catalogName, dep>>})

\* C8 as claimed: with several dependencies in the edit set, the returned text holds the
\* new version at every entry of an edited dependency that exists at the catalog's path.
C8_EveryEditApplied ==
    (CatalogPatched /\ Cardinality(DOMAIN edit.upgraded) > 1) =>
        \A dep \in Deps : \A path \in TargetPaths(edit.catalogName, dep) :
            (Edited(dep) /\ hasNode(original, path)) =>
                ValueAt(fileContent, path) = edit.upgraded[dep]

\* C9: applying a patcher to its own output with the same edit set returns that output:
\* once applied, a further application changes neither the text nor the outcome.
C9_Idempotence ==
    [][(phase = "patch" /\ patched # "no") => (fileContent' = fileContent /\ threw' = threw)]_vars

\* the catalog patcher was applied to its own output, after its first application had
\* rewritten an entry
C9_Witness ==
    /\ CatalogPatched
    /\ patched = "again"
    /\ \E path \in DOMAIN original.nodes : ValueAt(fileContent, path) # original.nodes[path]

\* C10 as claimed: an edit set whose new versions all equal the current versions leaves the
\* returned text equal to the input text, for YAML and for JSON.
C10_NoOpPurity ==
    (CatalogPatched /\ (IsYaml \/ IsJson)) =>
        ((/\ DOMAIN edit.upgraded # {}
          /\ \A dep \in DOMAIN edit.upgraded :
                dep \in DOMAIN edit.current /\ edit.current[dep] = edit.upgraded[dep]) =>
            fileContent = original)

(***************************************************************************)
(* The two names of the implicit catalog: C11                              *)
(***************************************************************************)
\* the other name of the implicit catalog
OtherDefaultName(catalogName) == IF catalogName = "default" THEN "" ELSE "default"

\* C11 as claimed: the content-based upgradeCatalogData returns the same text for a
\* document and an edit set whether the implicit catalog is named "default" or "",
\* in the YAML branch and in the JSON branch.
C11_DefaultNamesEquivalent ==
    (CatalogPatched /\ patched = "once" /\ edit.catalogName \in {"", "default"}) =>
        fileContent = upgradeCatalogData(original, edit.fileExtension,
                                         OtherDefaultName(edit.catalogName),
                                         edit.current, edit.upgraded).text

(***************************************************************************)
(* Reference collection: C12                                               *)
(***************************************************************************)
\* processCatalogs has collected the references of the consumer manifests
ReferencesCollected ==
    phase = "run" /\ pc # "start" /\ DOMAIN runCatalogDependencies # {}

\* C12 as claimed: every name that a scanned map section of a consumer manifest declares
\* as "catalog:<c>", and that is neither workspace-owned nor rejected by the filter, is in
\* the reference set collected for catalog c.
C12_EveryReferenceCollected ==
    ReferencesCollected =>
        \A i \in DOMAIN packageInfos : \A s \in DOMAIN options.dep : \A c \in RefNames :
            LET section == sectionOf(packageInfos[i].pkg, options.dep[s])
            IN \A name \in DOMAIN section :
                   (/\ options.dep[s] \in MapSections
                    /\ section[name] = lookupKey(c)
                    /\ name \notin options.workspacePackages
                    /\ filterAndReject(options, name, section[name])) =>
                       /\ c \in DOMAIN catalogReferences
                       /\ name \in catalogReferences[c]

(***************************************************************************)
(* Catalog definitions read from the files: C13, C14                       *)
(***************************************************************************)
ReadDone == phase = "read" /\ readResult.status = "ok"

WorkspaceFileRead ==
    options.packageManager = "pnpm" /\ files["pnpm-workspace.yaml"] # NoFile

\* C13 as claimed: with pnpm and a workspace file holding both a flat catalog node and
\* catalogs.default, the definition returned for "default" has every dependency of either.
C13_DefaultIsUnion ==
    LET yaml == files["pnpm-workspace.yaml"]
        flat == objectAt(yaml, <<"catalog">>)
        named == objectAt(yaml, <<"catalogs", "default">>)
    IN (ReadDone /\ WorkspaceFileRead /\ DOMAIN flat # {} /\ DOMAIN named # {}) =>
           \A dep \in (DOMAIN flat) \cup (DOMAIN named) :
               dep \in DOMAIN GetMap(readResult.value, "default")

\* the version a source defines for (catalog name, dependency), Absent if it defines none;
\* the flat catalog node defines the catalog "default"
InDocument(text, prefix, catalogName, dep) ==
    IF hasNode(text, prefix \o <<"catalogs", catalogName, dep>>)
    THEN text.nodes[prefix \o <<"catalogs", catalogName, dep>>]
    ELSE IF catalogName = "default" /\ hasNode(text, prefix \o <<"catalog", dep>>)
         THEN text.nodes[prefix \o <<"catalog", dep>>]
         ELSE Absent

\* the sources in the order they are read: workspace file, root of package.json, workspaces
DefinedBy(source, catalogName, dep) ==
    IF source = 1
    THEN (IF WorkspaceFileRead
          THEN InDocument(files["pnpm-workspace.yaml"], <<>>, catalogName, dep) ELSE Absent)
    ELSE IF source = 2
         THEN InDocument(files["package.json"], <<>>, catalogName, dep)
         ELSE InDocument(files["package.json"], <<"workspaces">>, catalogName, dep)

\* C14 as claimed: for every (catalog name, dependency) pair that a source defines, the
\* result holds the value of the source read last among those that define the pair.
C14_MergedPerPair ==
    ReadDone =>
        \A catalogName \in CatalogNames : \A dep \in Deps : \A source \in 1..3 :
            (/\ DefinedBy(source, catalogName, dep) # Absent
             /\ \A later \in (source + 1)..3 : DefinedBy(later, catalogName, dep) = Absent) =>
                Get(GetMap(readResult.value, catalogName), dep) = DefinedBy(source, catalogName, dep)

(***************************************************************************)
(* The overrides section: C15                                              *)
(***************************************************************************)
PackagePatched ==
    phase = "patch" /\ edit.target = "package" /\ patched # "no" /\ ~threw

\* the entries of a top-level section of a manifest text, <<>> if the text has none
EntriesOf(text, key) ==
    IF \E i \in DOMAIN text.items : text.items[i].key = key
    THEN text.items[CHOOSE i \in DOMAIN text.items : text.items[i].key = key].entries
    ELSE <<>>

\* the section of the input holds the dependency at its current version
HoldsCurrent(key, dep) ==
    \E i \in DOMAIN EntriesOf(original, key) :
        /\ EntriesOf(original, key)[i].name = dep
        /\ EntriesOf(original, key)[i].version = edit.current[dep]

\* every entry of the dependency in the section of the output holds the new version
HoldsUpgraded(key, dep) ==
    \A i \in DOMAIN EntriesOf(fileContent, key) :
        EntriesOf(fileContent, key)[i].name = dep =>
            EntriesOf(fileContent, key)[i].version = edit.upgraded[dep]

\* C15 as claimed: a dependency with an edit that has its current version both in a
\* configured section and in overrides has the new version at both places in the
\* returned text, whether or not overrides is among the configured sections.
C15_OverridesPatched ==
    PackagePatched =>
        \A dep \in Deps : \A s \in DOMAIN options.dep :
            (/\ Edited(dep)
             /\ options.dep[s] \in MapSections
             /\ HoldsCurrent(options.dep[s], dep)
             /\ HoldsCurrent("overrides", dep)) =>
                /\ HoldsUpgraded(options.dep[s], dep)
                /\ HoldsUpgraded("overrides", dep)

(***************************************************************************)
(* Failures during a run: C16                                              *)
(***************************************************************************)
RunEnded == phase = "run" /\ pc \in {"done", "rejected"}

FailedLookup(catalogName) ==
    /\ catalogName \in DOMAIN catalogReferences
    /\ lookupFails(runCatalogDependencies, catalogName, catalogReferences[catalogName], registry)

\* the lookup of the catalog meets no error and finds upgrades
SucceededLookup(catalogName) ==
    /\ catalogName \in DOMAIN catalogReferences
    /\ ~FailedLookup(catalogName)
    /\ DOMAIN upgradesOf(runCatalogDependencies, catalogName,
                         catalogReferences[catalogName], registry) # {}

\* C16 as claimed: when the lookup of one catalog fails and that of another succeeds,
\* and upgrade is set, the run ends normally, has written the catalog file with the
\* upgrades of the catalog whose lookup succeeded, and has no edit for a failed name.
C16_FailedLookupIsolated ==
    \A failed \in RefNames : \A succeeded \in RefNames :
        (/\ RunEnded
         /\ options.upgrade
         /\ FailedLookup(failed)
         /\ SucceededLookup(succeeded)) =>
            /\ pc = "done"
            /\ succeeded \in DOMAIN upgradedCatalogDeps
            /\ WritesOf(catalogFilePath) >= 1
            /\ \A c \in DOMAIN upgradedCatalogDeps : \A dep \in DOMAIN upgradedCatalogDeps[c] :
                  registry[dep] # LookupError

(***************************************************************************)
(* A catalog file that cannot be parsed: C17                               *)
(***************************************************************************)
MalformedCatalogFile == \E f \in CatalogFiles : isMalformed(files[f])

NoLookupError == \A d \in DOMAIN registry : registry[d] # LookupError

\* C17 as claimed: with a catalog file that cannot be parsed, processCatalogs never ends
\* in an error of its own, and where it came to update the file it has reported the error
\* and written nothing.
C17_UpdateFailureIsolated ==
    (phase = "run" /\ MalformedCatalogFile /\ NoLookupError) =>
        /\ pc # "rejected"
        /\ (pc = "done" /\ UpdatesCatalogFile) =>
               /\ \E i \in DOMAIN ioLog : ioLog[i] = Report(catalogFilePath)
               /\ WritesOf(catalogFilePath) = 0

(***************************************************************************)
(* Edits without an entry: C18                                             *)
(***************************************************************************)
CatalogCalled ==
    phase = "patch" /\ edit.target = "catalog" /\ patched # "no" /\ (IsYaml \/ IsJson)

\* the dependency is in the edit set and the document has no entry for it at any path
\* the patcher looks at for the catalog
AbsentEdit(dep) ==
    /\ Edited(dep)
    /\ \A path \in TargetPaths(edit.catalogName, dep) : path \notin DOMAIN original.nodes

PresentEdit(dep) ==
    /\ Edited(dep)
    /\ \E path \in TargetPaths(edit.catalogName, dep) : path \in DOMAIN original.nodes

\* the edit set without the edits that have no entry
PresentOnly == [dep \in {d \in DOMAIN edit.upgraded : ~AbsentEdit(d)} |-> edit.upgraded[dep]]

\* C18: an edit set with an edit for a dependency that has no entry at the catalog's path
\* raises no error and adds no entry; the returned text is the one the edit set without
\* that edit gives, and every other edit whose path exists has left its new version there.
C18_AbsentEditSkipped ==
    (CatalogCalled /\ \E dep \in Deps : AbsentEdit(dep)) =>
        /\ ~threw
        /\ DOMAIN fileContent.nodes = DOMAIN original.nodes
        /\ fileContent = upgradeCatalogData(original, edit.fileExtension, edit.catalogName,
                                            edit.current, PresentOnly).text
        /\ \A dep \in Deps : PresentEdit(dep) =>
               \E path \in TargetPaths(edit.catalogName, dep) :
                   /\ path \in DOMAIN original.nodes
                   /\ ValueAt(fileContent, path) = edit.upgraded[dep]

\* one edit of the set has no entry while another one has, and was applied
C18_Witness ==
    /\ CatalogCalled
    /\ \E absent, present \in Deps :
          /\ AbsentEdit(absent)
          /\ PresentEdit(present)
          /\ \E path \in TargetPaths(edit.catalogName, present) :
                /\ ValueAt(original, path) = edit.current[present]
                /\ ValueAt(fileContent, path) = edit.upgraded[present]

(***************************************************************************)
(* Workspace-owned packages: C19                                           *)
(***************************************************************************)
\* C19: no name of options.workspacePackages is a key of what getCurrentDependencies
\* returns, nor of what getCatalogDependencies returns, whatever the manifest declares.
C19_WorkspacePackagesExcluded ==
    phase = "resolve" =>
        \A name \in options.workspacePackages :
            /\ curResult.status = "ok" => name \notin DOMAIN curResult.value
            /\ catResult.status = "ok" => name \notin DOMAIN catResult.value

\* both resolvers have returned for a manifest that declares a workspace-owned name in
\* scanned sections, once with a version and once with a catalog reference
C19_Witness ==
    /\ phase = "resolve"
    /\ curResult.status = "ok"
    /\ catResult.status = "ok"
    /\ \E name \in options.workspacePackages :
          /\ Scanned("dependencies") /\ Scanned("devDependencies")
          /\ name \in DOMAIN pkgData.dependencies
          /\ ~startsWithCatalog(pkgData.dependencies[name])
          /\ name \in DOMAIN pkgData.devDependencies
          /\ startsWithCatalog(pkgData.devDependencies[name])

(***************************************************************************)
(* A malformed filter: C20                                                 *)
(***************************************************************************)
MalformedFilterRun == phase = "run" /\ options.filter = "/("

\* C20 as claimed: every run of processCatalogs with a malformed filter raises the error
\* through programError during reference collection.
C20_ErrorInEveryRun ==
    (MalformedFilterRun /\ pc # "start") => pc = "programError"

\* C20, amended: a run with a malformed filter never starts a lookup and never reads or
\* writes a file; when catalog dependencies and at least one manifest are handed in, it
\* ends in programError, raised while the references are collected; otherwise it returns
\* before the filter is looked at.
C20_MalformedFilterStopsRun ==
    MalformedFilterRun =>
        /\ pc \in {"start", "done", "programError"}
        /\ ioLog = <<>>
        /\ upgradedCatalogDeps = EmptyObj
        /\ catalogFilePath = ""
        /\ catalogReferences = EmptyObj
        /\ (pc # "start" /\ DOMAIN runCatalogDependencies # {} /\ packageInfos # <<>>)
               => pc = "programError"
        /\ pc = "programError" => (DOMAIN runCatalogDependencies # {} /\ packageInfos # <<>>)

\* the run ended in programError although the registry holds a newer version of a
\* dependency that a manifest references and a catalog defines
C20_Witness ==
    /\ MalformedFilterRun
    /\ pc = "programError"
    /\ options.upgrade
    /\ packageInfos # <<>>
    /\ "catalog:" \in DOMAIN runCatalogDependencies
    /\ \E dep \in Deps :
          /\ Get(packageInfos[1].pkg.dependencies, dep) = "catalog:"
          /\ Get(runCatalogDependencies["catalog:"], dep) = OldVersion
          /\ Get(registry, dep) = ExactSpec(MaxMajor)

(***************************************************************************)
(* Unsupported formats: C21                                                *)
(***************************************************************************)
DispatcherCalled == phase = "patch" /\ edit.target = "catalog" /\ patched # "no"

\* C21: upgradeCatalogData raises an error, and returns no text in place of the one handed
\* in, exactly for the file extensions other than .yaml, .yml and .json.
C21_UnsupportedFormatFails ==
    DispatcherCalled =>
        /\ threw <=> edit.fileExtension \notin {".yaml", ".yml", ".json"}
        /\ threw => fileContent = original

\* the call failed for an unsupported extension although the document holds an entry for
\* which the edit set has a new version
C21_Witness ==
    /\ DispatcherCalled
    /\ threw
    /\ edit.fileExtension \in UnsupportedExtensions
    /\ \E path \in DOMAIN original.nodes :
          /\ DepOf(path) \in DOMAIN edit.upgraded
          /\ DepOf(path) \in DOMAIN edit.current
          /\ original.nodes[path] = edit.current[DepOf(path)]
          /\ original.nodes[path] # edit.upgraded[DepOf(path)]

(***************************************************************************)
(* Several catalogs of one file: C22                                       *)
(***************************************************************************)
\* the run has ended after updating the file for two or more catalogs without an error
SeveralCatalogsUpdated ==
    /\ UpdatesCatalogFile
    /\ pc = "done"
    /\ Cardinality(DOMAIN upgradedCatalogDeps) >= 2
    /\ \A i \in DOMAIN ioLog : ioLog[i][1] # "error"

\* the entries of the catalog file that define the dependency in the catalog
PairPaths(catalogName, dep) ==
    {path \in DOMAIN files[catalogFilePath].nodes :
        EntryOf(path, catalogName) /\ DepOf(path) = dep}

\* the catalog's name as readCatalogDependencies gives it
DefinitionName(catalogName) == IF catalogName = "" THEN "default" ELSE catalogName

RunOver == phase = "run" /\ pc \notin {"start", "lookup", "find", "read", "upgrade", "write"}

AnyWrite == \E i \in DOMAIN ioLog : ioLog[i][1] = "write"

\* the run has nothing to write: no catalog definitions, no catalog references, no
\* dependency with a version to upgrade to, or options.upgrade unset
NothingToWrite ==
    \/ DOMAIN runCatalogDependencies = {}
    \/ DOMAIN collectReferences(packageInfos, options) = {}
    \/ DOMAIN lookupUpgrades(runCatalogDependencies,
                             collectReferences(packageInfos, options), registry) = {}
    \/ ~options.upgrade

\* upgradePackageData was called with an empty upgraded map
EmptyUpgradeCalled ==
    phase = "patch" /\ edit.target = "package" /\ patched # "no" /\ DOMAIN edit.upgraded = {}

\* C23 as claimed: a file is written only in runs in which a catalog dependency has an
\* upgrade and options.upgrade is set; a run with nothing to write ends normally and
\* without a write; upgradePackageData with an empty upgraded map returns its input.
C23_WriteGuard ==
    /\ (phase = "run" /\ AnyWrite) => (DOMAIN upgradedCatalogDeps # {} /\ options.upgrade)
    /\ (RunOver /\ NothingToWrite) => (pc = "done" /\ ~AnyWrite)
    /\ EmptyUpgradeCalled => (~threw /\ fileContent = original)

====
